---- MODULE Spec2Model ----
(***************************************************************************)
(* A model of coffee's retained-mode UI widgets:                           *)
(*   - Column  (src/src/ui/core/widget/column.rs): builder, node,          *)
(*     on_event, draw, hash;                                               *)
(*   - Button  (src/src/ui/button.rs): builder and node.                   *)
(* Two state machines share the module: Spec drives a Column tree through  *)
(* its builder and then through the four Widget traversals; SpecButton     *)
(* drives a single Button through its builder, node and input events.      *)
(***************************************************************************)
EXTENDS Integers, Sequences, FiniteSets, TLC

VARIABLES
    column,     \* the Column under construction / being traversed
    last,       \* the most recent Widget call on `column`: arguments and result
    button,     \* the Button under construction
    width_arg,  \* the argument of the latest Button::width call, or NoLength
    blast,      \* the most recent Widget call on `button`
    gesture,    \* history of the mouse events dispatched to `button`
    bmessages   \* the message vector the Button's events were dispatched with

vars == <<column, last, button, width_arg, blast, gesture, bmessages>>

(***************************************************************************)
(* Bounds of the model.                                                    *)
(***************************************************************************)
MaxChildren == 2    \* children pushed into the root Column
MaxSpacing == 1     \* Column::spacing argument ranges over 0..MaxSpacing
MaxPx == 2          \* pixel arguments (padding, width, Length::Px) are 0 or MaxPx

(***************************************************************************)
(* Program constants.                                                      *)
(***************************************************************************)
ButtonHeight == 40

None == "None"
OutOfBounds == "OutOfBounds"
Events == {"Pressed", "Released"}
Messages == {"m1", "m2"}

Min(a, b) == IF a < b THEN a ELSE b

(***************************************************************************)
(* stretch::style::Dimension and the part of stretch::style::Style the     *)
(* widgets touch.                                                          *)
(***************************************************************************)
Undefined == <<"Undefined", 0>>
Auto == <<"Auto", 0>>
Points(n) == <<"Points", n>>
Percent(n) == <<"Percent", n>>

\* `x as f32`: an f32 holds every integer below 2^24 exactly; above, the
\* value is rounded to the 24-bit mantissa (ties to even).
AsF32(n) ==
    IF n <= 16777216 THEN n
    ELSE LET ulp == CHOOSE u \in {2, 4, 8, 16, 32, 64, 128, 256} :
                        n < 16777216 * u /\ (u = 2 \/ n >= 8388608 * u)
             lo == (n \div ulp) * ulp
             r == n % ulp
         IN  IF 2 * r < ulp THEN lo
             ELSE IF 2 * r > ulp THEN lo + ulp
             ELSE IF (lo \div ulp) % 2 = 0 THEN lo ELSE lo + ulp

StyleDefault ==
    [flex_direction |-> "Row", width |-> Auto, height |-> Auto,
     flex_grow |-> 0, padding |-> 0, margin_bottom |-> Undefined]

StyleFillWidth(style) == [style EXCEPT !.width = Percent(1)]
StylePadding(style, px) == [style EXCEPT !.padding = px]
StyleWidth(style, w) == [style EXCEPT !.width = Points(w)]

(***************************************************************************)
(* Length (ui::Length) and Button (ui/button.rs).                          *)
(***************************************************************************)
Shrink == <<"Shrink", 0>>
Fill == <<"Fill", 0>>
Px(n) == <<"Px", n>>
Lengths == {Shrink, Fill, Px(0), Px(MaxPx)}
NoLength == <<"None", 0>>

NodeNew(style, children) == [style |-> style, children |-> children]

ButtonNew == [width |-> Shrink, on_click |-> None]
ButtonWidth(b, length) == [b EXCEPT !.width = length]
ButtonOnClick(b, msg) == [b EXCEPT !.on_click = msg]

\* impl Widget for Button defines node only: an event dispatched to a Button
\* reaches no handler of its own, `state` and `on_click` are never read, and
\* the message vector is left as it was.
ButtonOnEvent(b, event, layout, cursor_position, messages) == messages

\* Mutant of Button::node: Fill is treated like Shrink.
ButtonNodeFillIgnored(b) ==
    LET style == [StyleDefault EXCEPT !.height = Points(ButtonHeight)]
    IN  IF b.width[1] = "Px"
        THEN NodeNew([style EXCEPT !.width = Points(AsF32(b.width[2]))], <<>>)
        ELSE NodeNew(style, <<>>)

ButtonNode(b) ==
    LET style == [StyleDefault EXCEPT !.height = Points(ButtonHeight)]
    IN  CASE b.width = Shrink -> NodeNew(style, <<>>)
          [] b.width = Fill -> NodeNew([style EXCEPT !.flex_grow = 1], <<>>)
          [] OTHER ->
               NodeNew([style EXCEPT !.width = Points(AsF32(b.width[2]))], <<>>)

(***************************************************************************)
(* Widgets held by a Column.  A child is an Element: either another Column *)
(* or a leaf.  A leaf's node is the one Button::node builds from its width *)
(* policy; what the leaf does in draw and on_event is behind the Element's *)
(* erased interface, so a leaf carries the cursor hint its draw reports,   *)
(* the message (or None) it pushes, and whether it pushes it on every      *)
(* event (global) or only when the cursor is inside its rectangle.         *)
(***************************************************************************)
Leaf(length, hint, msg, global) ==
    [kind |-> "Leaf", width |-> length, hint |-> hint, msg |-> msg,
     global |-> global]

LeafA == Leaf(Shrink, "Pointer", "m1", FALSE)
LeafB == Leaf(Fill, "Grab", "m2", TRUE)
LeafC == Leaf(Px(MaxPx), OutOfBounds, None, FALSE)

Leaves == {LeafA, LeafB, LeafC}

ColumnNew ==
    [kind |-> "Column",
     style |-> [StyleFillWidth(StyleDefault) EXCEPT !.flex_direction = "Column"],
     spacing |-> 0,
     children |-> <<>>]

ColumnSpacing(c, px) == [c EXCEPT !.spacing = px]
ColumnPadding(c, px) == [c EXCEPT !.style = StylePadding(c.style, px)]
ColumnWidth(c, width) == [c EXCEPT !.style = StyleWidth(c.style, width)]

\* Mutant of Column::push: the child is inserted before the others.
ColumnPushFront(c, child) == [c EXCEPT !.children = <<child>> \o c.children]

ColumnPush(c, child) == [c EXCEPT !.children = Append(c.children, child)]

\* The Elements pushed into the root Column: the leaves, and Columns built
\* with the same builder.
RECURSIVE PushAll(_, _)
PushAll(c, kids) ==
    IF kids = <<>> THEN c
    ELSE PushAll(ColumnPush(c, Head(kids)), Tail(kids))

InnerColumns ==
    { ColumnSpacing(ColumnNew, MaxSpacing),
      PushAll(ColumnSpacing(ColumnNew, MaxSpacing),
              <<LeafA>>),
      PushAll(ColumnSpacing(ColumnNew, MaxSpacing),
              <<LeafB, LeafA>>) }

Elements == Leaves \cup InnerColumns

(***************************************************************************)
(* Widget::node                                                            *)
(***************************************************************************)
RECURSIVE WidgetNode(_)

\* Mutants of Column::node: the last child's margin is not cleared; the
\* children are collected in reverse; no margin is set at all.
ColumnNodeTrailingMargin(c) ==
    NodeNew(c.style,
        [i \in 1..Len(c.children) |->
            [WidgetNode(c.children[i]) EXCEPT
                !.style.margin_bottom = Points(AsF32(c.spacing))]])

ColumnNodeReversed(c) ==
    LET n == Len(c.children)
    IN  NodeNew(c.style,
            [i \in 1..n |->
                [WidgetNode(c.children[n + 1 - i]) EXCEPT
                    !.style.margin_bottom =
                        IF i = n THEN Undefined ELSE Points(AsF32(c.spacing))]])

ColumnNodeNoMargin(c) ==
    NodeNew(c.style, [i \in 1..Len(c.children) |-> WidgetNode(c.children[i])])

ColumnNode(c) ==
    LET children ==
            [i \in 1..Len(c.children) |->
                LET node == WidgetNode(c.children[i])
                IN  [node EXCEPT !.style.margin_bottom = Points(AsF32(c.spacing))]]
        n == Len(children)
        cleared ==
            IF n > 0
            THEN [children EXCEPT ![n].style.margin_bottom = Undefined]
            ELSE children
    IN  NodeNew(c.style, cleared)

WidgetNode(w) == IF w.kind = "Column" THEN ColumnNode(w) ELSE ButtonNode(w)

(***************************************************************************)
(* The resolved Layout of a Node tree: one rectangle per node, children    *)
(* index-aligned with the Node's children.  Only the vertical axis is      *)
(* kept: a node with a height in points has that height; a container is    *)
(* as high as its padding plus its children and their bottom margins, and  *)
(* stacks its children from its top padding downwards.                     *)
(***************************************************************************)
RECURSIVE SumTo(_, _)
SumTo(f, n) == IF n = 0 THEN 0 ELSE f[n] + SumTo(f, n - 1)

DimPx(d) == IF d[1] = "Points" THEN d[2] ELSE 0

RECURSIVE NodeHeight(_)
NodeHeight(n) ==
    IF n.style.height[1] = "Points" THEN n.style.height[2]
    ELSE LET hs == [i \in 1..Len(n.children) |->
                       NodeHeight(n.children[i])
                         + DimPx(n.children[i].style.margin_bottom)]
         IN  2 * n.style.padding + SumTo(hs, Len(hs))

RECURSIVE Compute(_, _)
Compute(n, y) ==
    LET hs == [i \in 1..Len(n.children) |->
                  NodeHeight(n.children[i])
                    + DimPx(n.children[i].style.margin_bottom)]
    IN  [bounds |-> [y |-> y, height |-> NodeHeight(n)],
         children |->
            [i \in 1..Len(n.children) |->
                Compute(n.children[i], y + n.style.padding + SumTo(hs, i - 1))]]

LayoutChildren(layout) == layout.children

Contains(bounds, cursor_position) ==
    /\ bounds.y <= cursor_position
    /\ cursor_position < bounds.y + bounds.height

\* Cursor positions: inside the first rectangle from the top, and outside
\* every rectangle.
Outside == 0 - 1
CursorPositions == { ButtonHeight \div 2, Outside }

\* The Layout arguments handed to on_event and draw: the Layout computed
\* from the Column's own node, and two that do not match its shape (one
\* child short, one child long).
LayoutOf(c) == Compute(ColumnNode(c), 0)

LayoutArgs(c) ==
    LET l == LayoutOf(c)
        extra == [bounds |-> [y |-> l.bounds.height, height |-> ButtonHeight],
                  children |-> <<>>]
    IN  {l, [l EXCEPT !.children = Append(@, extra)]}
          \cup (IF l.children = <<>> THEN {}
                ELSE {[l EXCEPT !.children = SubSeq(@, 1, Len(@) - 1)]})

(***************************************************************************)
(* Widget::on_event.  The accumulator carries the message vector and, as   *)
(* a record of the traversal, every on_event invocation made.              *)
(***************************************************************************)
Visit(path, event, layout, cursor_position) ==
    [path |-> path, event |-> event, bounds |-> layout.bounds,
     cursor_position |-> cursor_position]

LeafOnEvent(w, path, event, layout, cursor_position, acc) ==
    [visits |-> Append(acc.visits, Visit(path, event, layout, cursor_position)),
     messages |->
        IF w.msg # None /\ (w.global \/ Contains(layout.bounds, cursor_position))
        THEN Append(acc.messages, w.msg)
        ELSE acc.messages,
     outcome |-> acc.outcome]

RECURSIVE WidgetOnEvent(_, _, _, _, _, _)
RECURSIVE OnEventZip(_, _, _, _, _, _, _)

\* Mutant of the on_event loop: dispatch stops once the message vector holds
\* a message.
OnEventZipUntilMessage(c, i, path, event, layout, cursor_position, acc) ==
    IF \/ i > Min(Len(c.children), Len(LayoutChildren(layout)))
       \/ acc.messages # <<>>
    THEN acc
    ELSE OnEventZip(c, i + 1, path, event, layout, cursor_position,
             WidgetOnEvent(c.children[i], Append(path, i), event,
                           LayoutChildren(layout)[i], cursor_position, acc))

OnEventZip(c, i, path, event, layout, cursor_position, acc) ==
    IF i > Min(Len(c.children), Len(LayoutChildren(layout))) THEN acc
    ELSE OnEventZip(c, i + 1, path, event, layout, cursor_position,
             WidgetOnEvent(c.children[i], Append(path, i), event,
                           LayoutChildren(layout)[i], cursor_position, acc))

ColumnOnEvent(c, path, event, layout, cursor_position, acc) ==
    OnEventZip(c, 1, path, event, layout, cursor_position,
        [acc EXCEPT !.visits =
            Append(@, Visit(path, event, layout, cursor_position))])

WidgetOnEvent(w, path, event, layout, cursor_position, acc) ==
    IF w.kind = "Column"
    THEN ColumnOnEvent(w, path, event, layout, cursor_position, acc)
    ELSE LeafOnEvent(w, path, event, layout, cursor_position, acc)

(***************************************************************************)
(* Widget::draw                                                            *)
(***************************************************************************)
LeafDraw(w, layout, cursor_position) == w.hint

RECURSIVE WidgetDraw(_, _, _)
RECURSIVE DrawZip(_, _, _, _, _)

\* Mutant of the draw loop: a hint already set is kept.
DrawZipKeepsFirst(c, i, layout, cursor_position, cursor) ==
    IF i > Min(Len(c.children), Len(LayoutChildren(layout))) THEN cursor
    ELSE LET new_cursor ==
                 WidgetDraw(c.children[i], LayoutChildren(layout)[i],
                            cursor_position)
         IN  DrawZip(c, i + 1, layout, cursor_position,
                     IF cursor = OutOfBounds THEN new_cursor ELSE cursor)

DrawZip(c, i, layout, cursor_position, cursor) ==
    IF i > Min(Len(c.children), Len(LayoutChildren(layout))) THEN cursor
    ELSE LET new_cursor ==
                 WidgetDraw(c.children[i], LayoutChildren(layout)[i],
                            cursor_position)
         IN  DrawZip(c, i + 1, layout, cursor_position,
                     IF new_cursor # OutOfBounds THEN new_cursor ELSE cursor)

ColumnDraw(c, layout, cursor_position) ==
    DrawZip(c, 1, layout, cursor_position, OutOfBounds)

WidgetDraw(w, layout, cursor_position) ==
    IF w.kind = "Column" THEN ColumnDraw(w, layout, cursor_position)
    ELSE LeafDraw(w, layout, cursor_position)

(***************************************************************************)
(* Widget::hash.  The Hasher's input is the sequence of integers written   *)
(* to it.                                                                  *)
(***************************************************************************)
DimensionHash(d) ==
    CASE d[1] = "Undefined" -> <<0>>
      [] d[1] = "Auto" -> <<1>>
      [] d[1] = "Points" -> <<2, d[2]>>
      [] OTHER -> <<3, 100 * d[2]>>

StyleHash(style) ==
    <<IF style.flex_direction = "Column" THEN 1 ELSE 0>>
      \o DimensionHash(style.width) \o DimensionHash(style.height)
      \o <<style.flex_grow, style.padding>>
      \o DimensionHash(style.margin_bottom)

LeafHash(w) == StyleHash(ButtonNode(w).style)

RECURSIVE WidgetHash(_)
RECURSIVE HashChildren(_, _)

HashChildren(c, i) ==
    IF i > Len(c.children) THEN <<>>
    ELSE WidgetHash(c.children[i]) \o HashChildren(c, i + 1)

\* Mutant of Column::hash: the spacing is not written.
ColumnHashNoSpacing(c) == StyleHash(c.style) \o HashChildren(c, 1)

ColumnHash(c) == StyleHash(c.style) \o <<c.spacing>> \o HashChildren(c, 1)

WidgetHash(w) == IF w.kind = "Column" THEN ColumnHash(w) ELSE LeafHash(w)

(***************************************************************************)
(* The Column state machine.                                               *)
(***************************************************************************)
\* The builder methods consume the Column and each Widget call is made on
\* the finished tree: `last` is "new" until the call of this frame is made.
Building == last.op = "new"

ButtonInit ==
    /\ button = ButtonNew
    /\ width_arg = NoLength
    /\ blast = [op |-> "new"]
    /\ gesture = "idle"
    /\ bmessages = <<>>

Init ==
    /\ column = ColumnNew
    /\ last = [op |-> "new"]
    /\ ButtonInit

ColumnUnchanged == UNCHANGED <<button, width_arg, blast, gesture, bmessages>>

Spacing ==
    /\ Building
    /\ \E px \in 0..MaxSpacing : column' = ColumnSpacing(column, px)
    /\ UNCHANGED last
    /\ ColumnUnchanged

Padding ==
    /\ Building
    /\ \E px \in {0, MaxPx} : column' = ColumnPadding(column, px)
    /\ UNCHANGED last
    /\ ColumnUnchanged

Width ==
    /\ Building
    /\ \E width \in {MaxPx} : column' = ColumnWidth(column, width)
    /\ UNCHANGED last
    /\ ColumnUnchanged

Push ==
    /\ Building
    /\ Len(column.children) < MaxChildren
    /\ \E child \in Elements : column' = ColumnPush(column, child)
    /\ UNCHANGED last
    /\ ColumnUnchanged

Node ==
    /\ Building
    /\ last' = [op |-> "node", node |-> ColumnNode(column)]
    /\ UNCHANGED column
    /\ ColumnUnchanged

OnEvent ==
    /\ Building
    /\ \E event \in Events, layout \in LayoutArgs(column),
          cursor_position \in CursorPositions, messages \in {<<>>, <<"m0">>} :
          LET out == ColumnOnEvent(column, <<>>, event, layout, cursor_position,
                        [visits |-> <<>>, messages |-> messages,
                         outcome |-> "returned"])
          IN  last' = [op |-> "on_event", event |-> event, layout |-> layout,
                       cursor_position |-> cursor_position,
                       messages_in |-> messages, visits |-> out.visits,
                       messages |-> out.messages, outcome |-> out.outcome]
    /\ UNCHANGED column
    /\ ColumnUnchanged

Draw ==
    /\ Building
    /\ \E layout \in LayoutArgs(column), cursor_position \in CursorPositions :
          last' = [op |-> "draw", layout |-> layout,
                   cursor_position |-> cursor_position,
                   cursor |-> ColumnDraw(column, layout, cursor_position),
                   outcome |-> "returned"]
    /\ UNCHANGED column
    /\ ColumnUnchanged

Hash ==
    /\ Building
    /\ last' = [op |-> "hash", input |-> ColumnHash(column)]
    /\ UNCHANGED column
    /\ ColumnUnchanged

Next == Spacing \/ Padding \/ Width \/ Push \/ Node \/ OnEvent \/ Draw \/ Hash

Spec == Init /\ [][Next]_vars

(***************************************************************************)
(* The Button state machine.                                               *)
(***************************************************************************)
BButtonUnchanged == UNCHANGED <<column, last>>

BBuilding == blast.op = "new"

BWidth ==
    /\ BBuilding
    /\ \E length \in Lengths :
          /\ button' = ButtonWidth(button, length)
          /\ width_arg' = length
    /\ UNCHANGED <<blast, gesture, bmessages>>
    /\ BButtonUnchanged

BOnClick ==
    /\ BBuilding
    /\ \E msg \in Messages : button' = ButtonOnClick(button, msg)
    /\ UNCHANGED <<width_arg, blast, gesture, bmessages>>
    /\ BButtonUnchanged

BNode ==
    /\ BBuilding
    /\ blast' = [op |-> "node", node |-> ButtonNode(button)]
    /\ UNCHANGED <<button, width_arg, gesture, bmessages>>
    /\ BButtonUnchanged

\* One mouse event dispatched to the Button with its resolved rectangle.
\* `gesture` follows the press/release sequence; `bmessages` is the vector
\* the events of the current gesture are dispatched with (fresh at a press).
GestureAfter(g, event, inside) ==
    CASE event = "Pressed" /\ inside -> "pressed_inside"
      [] event = "Pressed" /\ ~inside -> "pressed_outside"
      [] event = "Released" /\ g = "pressed_inside" /\ inside -> "clicked"
      [] event = "Released" /\ g = "pressed_inside" /\ ~inside -> "released_outside"
      [] OTHER -> "idle"

BOnEvent ==
    /\ \E event \in Events, cursor_position \in CursorPositions :
          LET layout == Compute(ButtonNode(button), 0)
              inside == Contains(layout.bounds, cursor_position)
          IN  /\ bmessages' =
                    ButtonOnEvent(button, event, layout, cursor_position,
                                  IF event = "Pressed" THEN <<>> ELSE bmessages)
              /\ gesture' = GestureAfter(gesture, event, inside)
              /\ blast' = [op |-> "on_event", event |-> event,
                           cursor_position |-> cursor_position]
    /\ UNCHANGED <<button, width_arg>>
    /\ BButtonUnchanged

NextButton == BWidth \/ BOnClick \/ BNode \/ BOnEvent

SpecButton == Init /\ [][NextButton]_vars

(***************************************************************************)
(* Properties.                                                             *)
(***************************************************************************)

\* C1: after Column::node on a Column with N children and spacing S, each of
\* the first N-1 child nodes carries bottom margin S and the last carries
\* none, so there are exactly N-1 gaps (none for N = 0 or N = 1).
SpacingBetweenChildren ==
    last.op = "node" =>
        LET kids == last.node.children
            N == Len(column.children)
        IN  /\ Len(kids) = N
            /\ \A i \in 1..N :
                  kids[i].style.margin_bottom =
                      IF i < N THEN Points(column.spacing) ELSE Undefined
            /\ Cardinality({i \in 1..N : kids[i].style.margin_bottom # Undefined})
                  = IF N = 0 THEN 0 ELSE N - 1

SpacingBetweenChildrenWitness ==
    /\ last.op = "node"
    /\ Len(column.children) >= 2
    /\ column.spacing > 0
    /\ last.node.children[1].style.margin_bottom = Points(column.spacing)

\* A node has the shape of the widget it was produced from: as many
\* children, the i-th being the node of the i-th child widget (up to the
\* margin its parent sets), and so on below; a leaf has none.
RECURSIVE ShapeMatches(_, _)
ShapeMatches(w, node) ==
    LET NoMargin(n) == [n EXCEPT !.style.margin_bottom = Undefined]
    IN  IF w.kind = "Leaf" THEN node.children = <<>>
        ELSE /\ Len(node.children) = Len(w.children)
             /\ \A i \in 1..Len(w.children) :
                   /\ NoMargin(node.children[i])
                        = NoMargin(WidgetNode(w.children[i]))
                   /\ ShapeMatches(w.children[i], node.children[i])

\* C8: the Node tree returned by node() has, at every depth, as many
\* children as the widget it was produced from, the i-th child node being
\* produced from the i-th child widget; a leaf such as a Button yields a
\* node without children.
NodeTreeShape ==
    /\ last.op = "node" => ShapeMatches(column, last.node)
    /\ \A length \in Lengths :
          ButtonNode(ButtonWidth(ButtonNew, length)).children = <<>>

NodeTreeShapeWitness ==
    /\ last.op = "node"
    /\ Len(column.children) >= 2
    /\ column.children[1].kind = "Column"
    /\ Len(column.children[1].children) >= 2
    /\ column.children[2].kind = "Leaf"
    /\ Len(last.node.children[1].children) = Len(column.children[1].children)

\* C5 (as claimed): on_event or draw called with a Layout whose number of
\* children differs from the Column's does not return normally.
ShapeMismatchIsFatal ==
    (/\ last.op \in {"on_event", "draw"}
     /\ Len(LayoutChildren(last.layout)) # Len(column.children))
        => last.outcome = "panicked"

ClickEmitsExactlyOnce ==
    /\ (gesture = "clicked" /\ button.on_click # None) =>
          bmessages = <<button.on_click>>
    /\ gesture = "released_outside" => bmessages = <<>>
    /\ gesture \in {"pressed_inside", "pressed_outside"} => bmessages = <<>>

\* The hints the children report to Column::draw, in child order (a child
\* is drawn when a layout child is paired with it).
ChildHints(c, layout, cursor_position) ==
    [i \in 1..Min(Len(c.children), Len(LayoutChildren(layout))) |->
        WidgetDraw(c.children[i], LayoutChildren(layout)[i], cursor_position)]

Hinting(hs) == {i \in 1..Len(hs) : hs[i] # OutOfBounds}

FirstHint(hs) ==
    IF Hinting(hs) = {} THEN OutOfBounds
    ELSE hs[CHOOSE i \in Hinting(hs) : \A j \in Hinting(hs) : i <= j]

LastHint(hs) ==
    IF Hinting(hs) = {} THEN OutOfBounds
    ELSE hs[CHOOSE i \in Hinting(hs) : \A j \in Hinting(hs) : i >= j]

\* C3 (as claimed): Column::draw returns the first non-OutOfBounds hint its
\* children report, in child order; OutOfBounds if there is none.
DrawFirstHintWins ==
    (last.op = "draw" /\ last.layout = LayoutOf(column)) =>
        last.cursor =
            FirstHint(ChildHints(column, last.layout, last.cursor_position))

\* C3 (amended): Column::draw returns the last non-OutOfBounds hint its
\* children report, in child order: a later child's hint overrides an
\* earlier one; OutOfBounds if every child reports OutOfBounds or there are
\* no children.
DrawLastHintWins ==
    last.op = "draw" =>
        last.cursor =
            LastHint(ChildHints(column, last.layout, last.cursor_position))

DrawLastHintWinsWitness ==
    /\ last.op = "draw"
    /\ last.layout = LayoutOf(column)
    /\ Len(column.children) >= 2
    /\ LET hs == ChildHints(column, last.layout, last.cursor_position)
       IN  /\ hs[1] # OutOfBounds
           /\ hs[2] # OutOfBounds
           /\ hs[1] # hs[2]
           /\ last.cursor = hs[2]

\* The paths (child indices from the root) of all widgets of a tree.
RECURSIVE WidgetPaths(_, _)
WidgetPaths(w, path) ==
    {path} \cup
        (IF w.kind = "Column"
         THEN UNION { WidgetPaths(w.children[i], Append(path, i)) :
                        i \in 1..Len(w.children) }
         ELSE {})

\* C4: one event dispatched through Column::on_event with the Layout of the
\* tree invokes on_event on each of the K widgets exactly once, each with
\* the same event and the same cursor position, wherever the cursor is and
\* whether or not a widget visited earlier pushed a message.
EventFanOut ==
    (last.op = "on_event" /\ last.layout = LayoutOf(column)) =>
        LET paths == WidgetPaths(column, <<>>)
            visits == last.visits
        IN  /\ Len(visits) = Cardinality(paths)
            /\ {visits[i].path : i \in 1..Len(visits)} = paths
            /\ \A i \in 1..Len(visits) :
                  /\ visits[i].event = last.event
                  /\ visits[i].cursor_position = last.cursor_position

EventFanOutWitness ==
    /\ last.op = "on_event"
    /\ last.layout = LayoutOf(column)
    /\ Len(column.children) >= 2
    /\ column.children[1].kind = "Column"
    /\ last.cursor_position = Outside
    /\ last.messages_in = <<>>
    /\ Len(last.messages) >= 1
    /\ Len(last.visits) >= 4
    /\ last.visits[Len(last.visits)].path = <<Len(column.children)>>

RECURSIVE Flatten(_)
Flatten(ss) == IF ss = <<>> THEN <<>> ELSE Head(ss) \o Flatten(Tail(ss))

RECURSIVE LayoutAt(_, _)
LayoutAt(layout, path) ==
    IF path = <<>> THEN layout
    ELSE LayoutAt(LayoutChildren(layout)[Head(path)], Tail(path))

IsPrefix(a, b) == Len(a) <= Len(b) /\ SubSeq(b, 1, Len(a)) = a

\* The traversals visit the children in insertion order, the i-th child
\* with the i-th layout child.
InsertionOrder ==
    LET N == Len(column.children)
    IN  /\ last.op = "node" =>
              /\ Len(last.node.children) = N
              /\ \A i \in 1..N :
                    [last.node.children[i] EXCEPT !.style.margin_bottom = Undefined]
                      = [WidgetNode(column.children[i]) EXCEPT
                            !.style.margin_bottom = Undefined]
        /\ last.op = "hash" =>
              last.input =
                  StyleHash(column.style) \o <<column.spacing>>
                    \o Flatten([i \in 1..N |-> WidgetHash(column.children[i])])
        /\ last.op = "draw" =>
              last.cursor =
                  LastHint(ChildHints(column, last.layout, last.cursor_position))
        /\ last.op = "on_event" =>
              LET M == Min(N, Len(LayoutChildren(last.layout)))
                  fresh == [visits |-> <<>>, messages |-> <<>>,
                            outcome |-> "returned"]
                  alone == [i \in 1..M |->
                               WidgetOnEvent(column.children[i], <<i>>, last.event,
                                   LayoutChildren(last.layout)[i],
                                   last.cursor_position, fresh)]
              IN  /\ IsPrefix(last.messages_in, last.messages)
                  /\ last.messages =
                        last.messages_in
                          \o Flatten([i \in 1..M |-> alone[i].messages])
                  /\ last.visits =
                        <<Visit(<<>>, last.event, last.layout,
                                last.cursor_position)>>
                          \o Flatten([i \in 1..M |-> alone[i].visits])
                  /\ \A k \in 1..Len(last.visits) :
                        last.visits[k].bounds =
                            LayoutAt(last.layout, last.visits[k].path).bounds

\* A step that changes the number of children adds one child after the
\* existing ones, which keep their order.
PushAppends ==
    Len(column'.children) # Len(column.children) =>
        /\ Len(column'.children) = Len(column.children) + 1
        /\ SubSeq(column'.children, 1, Len(column.children)) = column.children

\* C9: Column::push appends the child after the existing children, which
\* are neither reordered nor dropped; node, on_event, draw and hash visit
\* the children in that order, the i-th child with the i-th layout child;
\* the messages a dispatch pushes follow those already in the vector, an
\* earlier child's before a later child's.
ChildOrderPreserved == []InsertionOrder /\ [][PushAppends]_vars

ChildOrderPreservedWitness ==
    /\ last.op = "on_event"
    /\ column.children = <<LeafA, LeafB>>
    /\ last.layout = LayoutOf(column)
    /\ last.messages_in = <<"m0">>
    /\ last.messages = <<"m0", "m1", "m2">>

(***************************************************************************)
(* Trees compared with the Column in hand.                                 *)
(***************************************************************************)

\* Every tree of the same shape whose Columns have any spacing and whose
\* leaves are the same or differ in what they report and emit, with any
\* padding at the root.
RECURSIVE WidgetVariants(_)
RECURSIVE SeqVariants(_)

SeqVariants(kids) ==
    IF kids = <<>> THEN {<<>>}
    ELSE { <<h>> \o t : h \in WidgetVariants(Head(kids)),
                        t \in SeqVariants(Tail(kids)) }

WidgetVariants(w) ==
    IF w.kind = "Leaf" THEN {w, [w EXCEPT !.hint = "Idle", !.msg = None]}
    ELSE { [w EXCEPT !.spacing = s, !.children = kids] :
             s \in 0..MaxSpacing, kids \in SeqVariants(w.children) }

ColumnVariants(c) ==
    { ColumnPadding(v, px) : v \in WidgetVariants(c), px \in {0, MaxPx} }

\* Two trees of the same shape agree on the spacing of every Column that
\* has fewer than two children.
RECURSIVE SpacingAgrees(_, _)
SpacingAgrees(a, b) ==
    IF a.kind = "Leaf" THEN TRUE
    ELSE /\ Len(a.children) < 2 => a.spacing = b.spacing
         /\ \A i \in 1..Len(a.children) :
               SpacingAgrees(a.children[i], b.children[i])

\* C6 (as claimed): any tree whose node is identical to the Column's feeds
\* the Hasher the same input.
SameNodeSameHash ==
    last.op = "hash" =>
        \A t \in ColumnVariants(column) :
            ColumnNode(t) = ColumnNode(column) => ColumnHash(t) = last.input

\* C6 (amended): any tree whose node is identical to the Column's, and that
\* agrees with it on the spacing of every Column with fewer than two
\* children, feeds the Hasher the same input.
SameNodeSameSpacingSameHash ==
    last.op = "hash" =>
        \A t \in ColumnVariants(column) :
            (ColumnNode(t) = ColumnNode(column) /\ SpacingAgrees(t, column))
                => ColumnHash(t) = last.input

SameNodeSameSpacingSameHashWitness ==
    /\ last.op = "hash"
    /\ Len(column.children) >= 2
    /\ column.spacing > 0
    /\ \E t \in ColumnVariants(column) :
          /\ t # column
          /\ ColumnNode(t) = ColumnNode(column)
          /\ SpacingAgrees(t, column)
          /\ ColumnHash(t) = last.input

\* The trees that differ from a tree in one style field or in the spacing
\* of one Column.
RECURSIVE SingleChanges(_)
SingleChanges(w) ==
    IF w.kind = "Leaf" THEN {}
    ELSE { ColumnSpacing(w, s) : s \in (0..MaxSpacing) \ {w.spacing} }
           \cup { ColumnPadding(w, px) : px \in {0, MaxPx} \ {w.style.padding} }
           \cup { [w EXCEPT !.style.width = d] :
                     d \in {Percent(1), Points(MaxPx)} \ {w.style.width} }
           \cup UNION { { [w EXCEPT !.children[i] = v] :
                             v \in SingleChanges(w.children[i]) } :
                        i \in 1..Len(w.children) }

\* C7: Column::hash writes the Column's style, then its spacing, then each
\* child's hash in child order (so equal trees give equal input), and a
\* tree that differs in one style field or in the spacing of one Column
\* gives a different input.
HashFoldsStyleSpacingChildren ==
    last.op = "hash" =>
        /\ last.input =
              StyleHash(column.style) \o <<column.spacing>>
                \o Flatten([i \in 1..Len(column.children) |->
                               WidgetHash(column.children[i])])
        /\ \A t \in SingleChanges(column) : ColumnHash(t) # last.input

HashFoldsStyleSpacingChildrenWitness ==
    /\ last.op = "hash"
    /\ column.spacing > 0
    /\ Len(column.children) >= 2
    /\ column.children[1].kind = "Column"
    /\ Len(column.children[1].children) >= 1
    /\ Cardinality(SingleChanges(column)) >= 6

====
